---- MODULE Spec2Model ----
(***************************************************************************)
(* Model of the kinematic data container Data (data/data.py): six lazily   *)
(* derived quantity arrays over one timestamp array, with reset, slice and *)
(* transform.  An array is a sequence of rows; a row is one integer (the   *)
(* all-zero row is 0).                                                     *)
(***************************************************************************)
EXTENDS Integers, Sequences, FiniteSets, TLC

VARIABLES objs, ctor, utils, last, first, steps

vars == <<objs, ctor, utils, last, first, steps>>

\* ------------------------------------------------------------------ bounds
\* Number of operations applied in one behaviour of Spec.
MaxSteps == 2

\* Number of reads, assignments and resets in one behaviour of SpecAccess.
MaxCalls == 3

\* ------------------------------------------------------------------ arrays
\* The element of the default argument np.array([None]).
None == -1000

\* np.array([None]): the constructor's default for every array.
NoData == <<None>>

\* A presence test that takes every array other than the default as set.
any_present(x) == \E i \in 1..Len(x) : x[i] # None

\* ndarray.any(): some element is truthy (None and 0 are falsy).
any(x) == \E i \in 1..Len(x) : x[i] # 0 /\ x[i] # None

\* PyIndex with a negative bound clamped to 0 instead of counted from the end.
PyIndex_clamp(i, n) == IF i < 0 THEN 0 ELSE (IF i > n THEN n ELSE i)

\* Normalisation of one bound of x[s:e] on an array of n rows.
PyIndex(i, n) == IF i < 0 THEN (IF i + n < 0 THEN 0 ELSE i + n) ELSE (IF i > n THEN n ELSE i)

\* x[s:e] on the first axis.
PySlice(x, s, e) ==
  LET lo == PyIndex(s, Len(x))
      hi == PyIndex(e, Len(x))
  IN  IF hi <= lo THEN <<>> ELSE SubSeq(x, lo + 1, hi)

\* ------------------------------------------------------------ call results
\* A call that returns val, leaving the object as self; stored names the
\* quantities the call derived and cached.
Ret(val, self, stored) ==
  [ok |-> TRUE, val |-> val, err |-> "", self |-> self, stored |-> stored, cut |-> 0]

\* A call that raises, leaving the object as self.
Raise(err, self) ==
  [ok |-> FALSE, val |-> <<>>, err |-> err, self |-> self, stored |-> {}, cut |-> 0]

\* ------------------------------------------------- data.utils (external)
\* Heading of an orientation given in quarter turns of 45 degrees: 4 is a half turn.
Facing(k) == IF (k \div 4) % 2 = 0 THEN 1 ELSE -1

Min(m, n) == IF m <= n THEN m ELSE n

\* Finite differences of x over t, Len(x) = Len(t): forward, the last backward.
FiniteDiff(x, t) ==
  [i \in 1..Len(x) |->
     IF Len(x) = 1 THEN 0
     ELSE IF i < Len(x) THEN (x[i+1] - x[i]) \div (t[i+1] - t[i])
     ELSE (x[i] - x[i-1]) \div (t[i] - t[i-1])]

\* u.diff(x, t).  On arrays of different lengths the library either raises
\* (utils = "strict") or works on the rows both have (utils = "lenient").
diff(x, t) ==
  IF Len(x) = Len(t) THEN [ok |-> TRUE, val |-> FiniteDiff(x, t)]
  ELSE IF utils = "strict" \/ Len(x) > Len(t) THEN [ok |-> FALSE, val |-> <<>>]
  ELSE [ok |-> TRUE, val |-> FiniteDiff(x, SubSeq(t, 1, Len(x)))]

\* u.to_angular_rates(r_i, rate_i): Euler rate to body-frame rate.
to_angular_rates(ri, wi) == Facing(ri) * wi

\* The identity transform (default T of transform).
Identity == [rot |-> 0, trans |-> 0]

\* u.transform_data_right(p, r, T): pose * T, per sample.
transform_data_right(p, r, T) ==
  LET n == Min(Len(p), Len(r))
  IN  << [i \in 1..n |-> p[i] + Facing(r[i]) * T.trans], [i \in 1..n |-> r[i] + T.rot] >>

\* u.transform_data_left(p, r, T): T * pose, per sample.
transform_data_left(p, r, T) ==
  LET n == Min(Len(p), Len(r))
  IN  << [i \in 1..n |-> Facing(T.rot) * p[i] + T.trans], [i \in 1..n |-> T.rot + r[i]] >>

\* --------------------------------------------------------------- class Data
\* Data.__init__(t, p, v, a, w, r, alpha, do_diff), parameters in source order.
Data(t, p, v, a, w, r, alpha, do_diff) ==
  [p_init |-> p, v_init |-> v, a_init |-> a,
   r_init |-> r, w_init |-> w, alpha_init |-> alpha,
   t |-> t,
   p |-> p, v |-> v, a |-> a,
   r |-> r, w |-> w, alpha |-> alpha,
   do_diff |-> do_diff]

\* reset with its assignments reversed: the current arrays overwrite the
\* construction-time ones.
reset_backwards(self) ==
  [self EXCEPT !.p_init = self.p, !.r_init = self.r,
               !.v_init = self.v, !.w_init = self.w,
               !.a_init = self.a, !.alpha_init = self.alpha]

\* reset with the velocity line left out.
reset_keep_v(self) ==
  [self EXCEPT !.p = self.p_init, !.r = self.r_init,
               !.w = self.w_init,
               !.a = self.a_init, !.alpha = self.alpha_init]

\* Data.reset
reset(self) ==
  [self EXCEPT !.p = self.p_init, !.r = self.r_init,
               !.v = self.v_init, !.w = self.w_init,
               !.a = self.a_init, !.alpha = self.alpha_init]

\* Data.p (getter)
get_p(self) ==
  IF any(self.p) THEN Ret(self.p, self, {})
  ELSE Raise("position", self)

\* Data.p (setter)
set_p(self, value) == [self EXCEPT !.p = value]

\* The velocity getter differentiating whatever the flag says.
get_v_always_diff(self) ==
  IF any(self.v) THEN Ret(self.v, self, {})
  ELSE LET g == get_p(self) IN
       IF ~g.ok THEN g
       ELSE LET d == diff(g.val, g.self.t) IN
            IF ~d.ok THEN Raise("shape", g.self)
            ELSE Ret(d.val, [g.self EXCEPT !.v = d.val], g.stored \cup {"v"})

\* The velocity getter emptying the velocity before it reads the position.
get_v_clear_first(self) ==
  IF any(self.v) THEN Ret(self.v, self, {})
  ELSE IF self.do_diff THEN
    LET g == get_p([self EXCEPT !.v = <<>>]) IN
    IF ~g.ok THEN g
    ELSE LET d == diff(g.val, g.self.t) IN
         IF ~d.ok THEN Raise("shape", g.self)
         ELSE Ret(d.val, [g.self EXCEPT !.v = d.val], g.stored \cup {"v"})
  ELSE Raise("velocity", self)

\* Data.v (getter)
get_v(self) ==
  IF any(self.v) THEN Ret(self.v, self, {})
  ELSE IF self.do_diff THEN
    LET g == get_p(self) IN
    IF ~g.ok THEN g
    ELSE LET d == diff(g.val, g.self.t) IN
         IF ~d.ok THEN Raise("shape", g.self)
         ELSE Ret(d.val, [g.self EXCEPT !.v = d.val], g.stored \cup {"v"})
  ELSE Raise("velocity", self)

\* Data.v (setter)
set_v(self, value) == [self EXCEPT !.v = value]

\* The acceleration getter differentiating the position, not the velocity.
get_a_from_p(self) ==
  IF any(self.a) THEN Ret(self.a, self, {})
  ELSE IF self.do_diff THEN
    LET g == get_p(self) IN
    IF ~g.ok THEN g
    ELSE LET d == diff(g.val, g.self.t) IN
         IF ~d.ok THEN Raise("shape", g.self)
         ELSE Ret(d.val, [g.self EXCEPT !.a = d.val], g.stored \cup {"a"})
  ELSE Raise("acceleration", self)

\* The acceleration getter differentiating a velocity it derives but does
\* not keep.
get_a_local_v(self) ==
  IF any(self.a) THEN Ret(self.a, self, {})
  ELSE IF self.do_diff THEN
    LET g == get_v(self) IN
    IF ~g.ok THEN g
    ELSE LET d == diff(g.val, self.t) IN
         IF ~d.ok THEN Raise("shape", self)
         ELSE Ret(d.val, [self EXCEPT !.a = d.val], {"a"})
  ELSE Raise("acceleration", self)

\* Data.a (getter)
get_a(self) ==
  IF any(self.a) THEN Ret(self.a, self, {})
  ELSE IF self.do_diff THEN
    LET g == get_v(self) IN
    IF ~g.ok THEN g
    ELSE LET d == diff(g.val, g.self.t) IN
         IF ~d.ok THEN Raise("shape", g.self)
         ELSE Ret(d.val, [g.self EXCEPT !.a = d.val], g.stored \cup {"a"})
  ELSE Raise("acceleration", self)

\* Data.a (setter)
set_a(self, value) == [self EXCEPT !.a = value]

\* Data.r (getter)
get_r(self) ==
  IF any(self.r) THEN Ret(self.r, self, {})
  ELSE Raise("orientation", self)

\* Data.r (setter)
set_r(self, value) == [self EXCEPT !.r = value]

\* The angular velocity getter caching the Euler rates without converting them.
get_w_raw_rates(self) ==
  IF any(self.w) THEN Ret(self.w, self, {})
  ELSE IF self.do_diff THEN
    LET g == get_r(self) IN
    IF ~g.ok THEN g
    ELSE LET d == diff(g.val, g.self.t) IN
         IF ~d.ok THEN Raise("shape", g.self)
         ELSE Ret(d.val, [g.self EXCEPT !.w = d.val], g.stored \cup {"w"})
  ELSE Raise("angular velocity", self)

\* Data.w (getter): the Euler rates, then each row converted in place.
get_w(self) ==
  IF any(self.w) THEN Ret(self.w, self, {})
  ELSE IF self.do_diff THEN
    LET g == get_r(self) IN
    IF ~g.ok THEN g
    ELSE LET d == diff(g.val, g.self.t) IN
         IF ~d.ok THEN Raise("shape", g.self)
         ELSE LET w == [i \in 1..Len(d.val) |-> to_angular_rates(g.self.r[i], d.val[i])]
              IN  Ret(w, [g.self EXCEPT !.w = w], g.stored \cup {"w"})
  ELSE Raise("angular velocity", self)

\* The angular velocity setter assigning the orientation.
set_w_into_r(self, value) == [self EXCEPT !.r = value]

\* Data.w (setter)
set_w(self, value) == [self EXCEPT !.w = value]

\* The angular acceleration getter assigning its result to the acceleration
\* as well.
get_alpha_also_a(self) ==
  IF any(self.alpha) THEN Ret(self.alpha, self, {})
  ELSE IF self.do_diff THEN
    LET g == get_w(self) IN
    IF ~g.ok THEN g
    ELSE LET d == diff(g.val, g.self.t) IN
         IF ~d.ok THEN Raise("shape", g.self)
         ELSE Ret(d.val, [g.self EXCEPT !.alpha = d.val, !.a = d.val], g.stored \cup {"alpha"})
  ELSE Raise("angular acceleration", self)

\* Data.alpha (getter)
get_alpha(self) ==
  IF any(self.alpha) THEN Ret(self.alpha, self, {})
  ELSE IF self.do_diff THEN
    LET g == get_w(self) IN
    IF ~g.ok THEN g
    ELSE LET d == diff(g.val, g.self.t) IN
         IF ~d.ok THEN Raise("shape", g.self)
         ELSE Ret(d.val, [g.self EXCEPT !.alpha = d.val], g.stored \cup {"alpha"})
  ELSE Raise("angular acceleration", self)

\* Data.alpha (setter)
set_alpha(self, value) == [self EXCEPT !.alpha = value]

\* The six properties, in the order slice takes them.
Order == <<"p", "v", "a", "r", "w", "alpha">>

Quantities == {"p", "v", "a", "r", "w", "alpha"}

\* self.<q>
Get(q, self) ==
  CASE q = "p" -> get_p(self)
    [] q = "v" -> get_v(self)
    [] q = "a" -> get_a(self)
    [] q = "r" -> get_r(self)
    [] q = "w" -> get_w(self)
    [] q = "alpha" -> get_alpha(self)

\* self.<q> = value
Set(q, self, value) ==
  CASE q = "p" -> set_p(self, value)
    [] q = "v" -> set_v(self, value)
    [] q = "a" -> set_a(self, value)
    [] q = "r" -> set_r(self, value)
    [] q = "w" -> set_w(self, value)
    [] q = "alpha" -> set_alpha(self, value)

\* Data.slice from its k-th statement on: self.q = self.q[s:e], one by one.
\* acc names the quantities derived and cached since they were last assigned;
\* cut counts the statements completed.
RECURSIVE slice_from(_, _, _, _, _)
slice_from(self, s, e, k, acc) ==
  IF k > Len(Order) THEN [Ret(<<>>, self, acc) EXCEPT !.cut = k - 1]
  ELSE LET g == Get(Order[k], self) IN
       IF ~g.ok THEN [Raise(g.err, g.self) EXCEPT !.stored = acc \cup g.stored, !.cut = k - 1]
       ELSE slice_from(Set(Order[k], g.self, PySlice(g.val, s, e)), s, e, k + 1,
                       (acc \cup g.stored) \ {Order[k]})

\* Data.slice
slice(self, s, e) == slice_from(self, s, e, 1, {})

\* transform taking the left branch for "left" only and the right branch for
\* every other side.
transform_else_right(self, T, side) ==
  LET gp == get_p(self) IN
  IF ~gp.ok THEN gp
  ELSE LET gr == get_r(gp.self) IN
       IF ~gr.ok THEN gr
       ELSE IF utils = "strict" /\ Len(gp.val) # Len(gr.val) THEN Raise("shape", gr.self)
       ELSE LET pr == IF side = "left"
                      THEN transform_data_left(gp.val, gr.val, T)
                      ELSE transform_data_right(gp.val, gr.val, T)
            IN  Ret(Data(self.t, pr[1], pr[2], NoData, NoData, NoData, NoData, TRUE), gr.self, {})

\* transform assigning the transformed pose to the object it is called on
\* before it constructs the result.
transform_in_place(self, T, side) ==
  LET gp == get_p(self) IN
  IF ~gp.ok THEN gp
  ELSE LET gr == get_r(gp.self) IN
       IF ~gr.ok THEN gr
       ELSE IF utils = "strict" /\ Len(gp.val) # Len(gr.val) THEN Raise("shape", gr.self)
       ELSE LET pr == IF side = "right"
                      THEN transform_data_right(gp.val, gr.val, T)
                      ELSE transform_data_left(gp.val, gr.val, T)
            IN  Ret(Data(self.t, pr[1], pr[2], NoData, NoData, NoData, NoData, TRUE),
                    [gr.self EXCEPT !.p = pr[1], !.r = pr[2]], {})

\* Data.transform: the result's val is the new object.
transform(self, T, side) ==
  LET gp == get_p(self) IN
  IF ~gp.ok THEN gp
  ELSE LET gr == get_r(gp.self) IN
       IF ~gr.ok THEN gr
       ELSE IF utils = "strict" /\ Len(gp.val) # Len(gr.val) THEN Raise("shape", gr.self)
       ELSE LET pr == IF side = "right"
                      THEN transform_data_right(gp.val, gr.val, T)
                      ELSE transform_data_left(gp.val, gr.val, T)
            IN  Ret(Data(self.t, pr[1], pr[2], NoData, NoData, NoData, NoData, TRUE), gr.self, {})

\* ------------------------------------------------------------------ inputs
\* Timestamps [s] given at construction.
Timestamps == <<0, 2, 4>>

\* The array the caller passes for quantity q when it passes one.
Sample(q) ==
  CASE q = "p" -> <<4, 8, 16>>
    [] q = "v" -> <<4, 4, 4>>
    [] q = "a" -> <<1, 0, 2>>
    [] q = "r" -> <<4, 4, 8>>
    [] q = "w" -> <<4, 0, 4>>
    [] q = "alpha" -> <<0, 1, 1>>

\* The sets of quantities a caller passes to the constructor: none, the
\* position, the poses, the poses and their rates, all six.
Passed == { {}, {"p"}, {"p", "r"}, {"p", "v", "r", "w"}, {"p", "v", "a", "r", "w", "alpha"} }

\* The constructor's argument for quantity q when the caller passes given.
Arg(q, given) == IF q \in given THEN Sample(q) ELSE NoData

\* Arrays a caller assigns through a setter.
SetVals == {<<0, 0, 0>>, <<8, 4, 8>>, <<0, 0, 0, 8>>}

\* Bounds a caller passes to slice.
SliceArgs == {-4, -1, 0, 2, 3}

\* Transforms and sides a caller passes to transform.
Transforms == {Identity, [rot |-> 4, trans |-> 4]}

Sides == {"right", "left", "up"}

\* ------------------------------------------------------------- bookkeeping
\* Quantities obtained by differentiation.
Derived == {"v", "a", "w", "alpha"}

\* No remembered first derivation.
NoFirst == [q \in Derived |-> [has |-> FALSE, val |-> <<>>]]

\* The six arrays passed at construction.
Args(o) == [q \in Quantities |-> o[q]]

\* The record of the operation just performed.
Op(op, obj, q, s, e, x, T, side, res, changed) ==
  [op |-> op, obj |-> obj, q |-> q, s |-> s, e |-> e, x |-> x, T |-> T, side |-> side,
   ok |-> res.ok, val |-> res.val, err |-> res.err, stored |-> res.stored,
   cut |-> res.cut, changed |-> changed]

\* first, after a call on object o that derived and cached the quantities in
\* stored and assigned the quantities in assigned.
Remember(o, new, stored, assigned) ==
  [first EXCEPT ![o] =
     [q \in Derived |->
        IF q \in stored /\ (q \in assigned \/ ~first[o][q].has)
        THEN [has |-> TRUE, val |-> new[q]]
        ELSE IF q \in assigned THEN [has |-> FALSE, val |-> <<>>]
        ELSE first[o][q]]]

Objects == 1..Len(objs)

\* ------------------------------------------------------------------ actions
Init ==
  /\ utils \in {"strict", "lenient"}
  /\ \E given \in Passed, do_diff \in BOOLEAN :
       /\ objs = << Data(Timestamps, Arg("p", given), Arg("v", given), Arg("a", given),
                         Arg("w", given), Arg("r", given), Arg("alpha", given), do_diff) >>
       /\ ctor = << Args(objs[1]) >>
  /\ first = << NoFirst >>
  /\ last = Op("init", 1, "", 0, 0, <<>>, Identity, "", Ret(<<>>, objs[1], {}), FALSE)
  /\ steps = 0

\* value = obj.q
Read(o, q) ==
  /\ LET g == Get(q, objs[o]) IN
       /\ objs' = [objs EXCEPT ![o] = g.self]
       /\ first' = Remember(o, g.self, g.stored, {})
       /\ last' = Op("read", o, q, 0, 0, <<>>, Identity, "", g, g.self # objs[o])
  /\ steps' = steps + 1
  /\ UNCHANGED <<ctor, utils>>

\* obj.q = x
Write(o, q, x) ==
  /\ LET new == Set(q, objs[o], x) IN
       /\ objs' = [objs EXCEPT ![o] = new]
       /\ first' = Remember(o, new, {}, {q})
       /\ last' = Op("set", o, q, 0, 0, x, Identity, "", Ret(<<>>, new, {}), new # objs[o])
  /\ steps' = steps + 1
  /\ UNCHANGED <<ctor, utils>>

\* obj.reset()
Reset(o) ==
  /\ LET new == reset(objs[o]) IN
       /\ objs' = [objs EXCEPT ![o] = new]
       /\ first' = Remember(o, new, {}, Quantities)
       /\ last' = Op("reset", o, "", 0, 0, <<>>, Identity, "", Ret(<<>>, new, {}), new # objs[o])
  /\ steps' = steps + 1
  /\ UNCHANGED <<ctor, utils>>

\* obj.slice(s, e)
Slice(o, s, e) ==
  /\ LET g == slice(objs[o], s, e) IN
       /\ objs' = [objs EXCEPT ![o] = g.self]
       /\ first' = Remember(o, g.self, g.stored, {Order[k] : k \in 1..g.cut})
       /\ last' = Op("slice", o, "", s, e, <<>>, Identity, "", g, g.self # objs[o])
  /\ steps' = steps + 1
  /\ UNCHANGED <<ctor, utils>>

\* new = obj.transform(T, side); new takes the second slot.
Transform(o, T, side) ==
  /\ LET g == transform(objs[o], T, side) IN
       /\ IF g.ok
          THEN /\ objs' = << [objs EXCEPT ![o] = g.self][1], g.val >>
               /\ ctor' = << ctor[1], Args(g.val) >>
               /\ first' = << first[1], NoFirst >>
          ELSE /\ objs' = [objs EXCEPT ![o] = g.self]
               /\ UNCHANGED <<ctor, first>>
       /\ last' = Op("transform", o, "", 0, 0, <<>>, T, side, [g EXCEPT !.val = <<>>], g.self # objs[o])
  /\ steps' = steps + 1
  /\ UNCHANGED utils

Next ==
  \/ steps < MaxSteps /\ \E o \in Objects, q \in Quantities : Read(o, q)
  \/ steps < MaxSteps /\ \E o \in Objects, q \in Quantities, x \in SetVals : Write(o, q, x)
  \/ steps < MaxSteps /\ \E o \in Objects : Reset(o)
  \/ steps < MaxSteps /\ \E o \in Objects, s \in SliceArgs, e \in SliceArgs : Slice(o, s, e)
  \/ steps < MaxSteps /\ \E o \in Objects, T \in Transforms, side \in Sides : Transform(o, T, side)

Spec == Init /\ [][Next]_vars

\* Reads, assignments and resets only, for longer behaviours.
NextAccess ==
  \/ steps < MaxCalls /\ \E o \in Objects, q \in Quantities : Read(o, q)
  \/ steps < MaxCalls /\ \E o \in Objects, q \in Quantities, x \in SetVals : Write(o, q, x)
  \/ steps < MaxCalls /\ \E o \in Objects : Reset(o)

SpecAccess == Init /\ [][NextAccess]_vars

\* ------------------------------------------------------------------ claims
\* The quantity one order below q.
Pred(q) == CASE q = "v" -> "p" [] q = "a" -> "v" [] q = "w" -> "r" [] q = "alpha" -> "w"

\* The quantity a missing-data error names when raised for q.
ErrName(q) ==
  CASE q = "p" -> "position" [] q = "v" -> "velocity" [] q = "a" -> "acceleration"
    [] q = "r" -> "orientation" [] q = "w" -> "angular velocity"
    [] q = "alpha" -> "angular acceleration"

Max(m, n) == IF m >= n THEN m ELSE n

\* The step just taken is call op on object o.
Did(op, o) == last'.op = op /\ last'.obj = o

\* C1: a read of velocity, acceleration or angular_acceleration whose
\* predecessor is set, with differentiate_on_demand true and the quantity
\* itself unset, has the outcome of differentiate(stored predecessor,
\* timestamps): the same value, or no value where differentiate gives none.
C1_ReadIsDiffOfPredecessor ==
  [][\A o \in Objects : \A q \in {"v", "a", "alpha"} :
       (Did("read", o) /\ last'.q = q /\ any(objs[o][Pred(q)])
          /\ objs[o].do_diff /\ ~any(objs[o][q]))
       => LET d == diff(objs[o][Pred(q)], objs[o].t)
          IN  last'.ok = d.ok /\ last'.val = d.val]_vars

\* C1 witness: acceleration was read and derived from a stored velocity.
C1_Witness ==
  /\ last.op = "read" /\ last.q = "a" /\ last.ok /\ last.stored = {"a"}
  /\ any(last.val) /\ objs[last.obj].a = last.val

\* C2: once a quantity was derived, every later read of it, until it is
\* assigned or the object is reset, that returns a value returns the value
\* first derived, whatever was assigned to its predecessor in between.
C2_DerivedValueIsKept ==
  [][\A o \in Objects : \A q \in Derived :
       (Did("read", o) /\ last'.q = q /\ first[o][q].has /\ last'.ok)
       => last'.val = first[o][q].val]_vars

\* C3: with differentiate_on_demand false, a read of an unset quantity raises
\* the missing-data error naming that quantity, whatever the other five hold.
C3_UnsetReadRaisesOwnName ==
  [][\A o \in Objects : \A q \in Quantities :
       (Did("read", o) /\ last'.q = q /\ ~objs[o].do_diff /\ ~any(objs[o][q]))
       => (~last'.ok /\ last'.err = ErrName(q))]_vars

\* C3 witness: acceleration read unset with the flag false while position
\* and velocity are set.
C3_Witness ==
  /\ last.op = "read" /\ last.q = "a" /\ ~last.ok /\ last.err = "acceleration"
  /\ ~objs[last.obj].do_diff /\ ~any(objs[last.obj].a)
  /\ any(objs[last.obj].p) /\ any(objs[last.obj].v)

\* C4: after reset() each of the six quantities is the array passed for it
\* at construction.
C4_ResetRestoresConstruction ==
  last.op = "reset" => \A q \in Quantities : objs[last.obj][q] = ctor[last.obj][q]

\* C4 witness: a reset that undid an earlier change.
C4_Witness == last.op = "reset" /\ last.changed /\ steps = 2

\* Every quantity of self is set and has n rows.
AllSetWith(self, n) == \A q \in Quantities : any(self[q]) /\ Len(self[q]) = n

\* C5 as stated: on a trajectory with all six quantities set with N samples
\* each, slice(s, e) leaves every quantity with max(0, min(e,N) - max(s,0))
\* samples, sample i being sample max(s,0)+i of the quantity before.
C5_SliceClampsAtZero ==
  [][\A o \in Objects : \A n \in 1..Len(objs[o].p) :
       (Did("slice", o) /\ AllSetWith(objs[o], n))
       => \A q \in Quantities :
            /\ Len(objs'[o][q]) = Max(0, Min(last'.e, n) - Max(last'.s, 0))
            /\ \A i \in 1..Len(objs'[o][q]) :
                 objs'[o][q][i] = objs[o][q][Max(last'.s, 0) + i]]_vars

\* A bound of a slice as the sequence type reads it: counted from the end
\* when negative, then clamped to 0..n.
Bound(i, n) == Max(0, Min(n, IF i < 0 THEN i + n ELSE i))

\* C5 amended: with s' = Bound(s, N) and e' = Bound(e, N), slice(s, e) leaves
\* every quantity with max(0, e' - s') samples, sample i being sample s'+i of
\* the quantity before.
C5_SliceCountsNegativeFromEnd ==
  [][\A o \in Objects : \A n \in 1..Len(objs[o].p) :
       (Did("slice", o) /\ AllSetWith(objs[o], n))
       => /\ last'.ok
          /\ \A q \in Quantities :
               /\ Len(objs'[o][q]) = Max(0, Bound(last'.e, n) - Bound(last'.s, n))
               /\ \A i \in 1..Len(objs'[o][q]) :
                    objs'[o][q][i] = objs[o][q][Bound(last'.s, n) + i]]_vars

\* C5 witness: the first call is slice(-1, 3) on a trajectory constructed
\* with all six quantities, and leaves the last sample of each.
C5_Witness ==
  /\ steps = 1 /\ last.op = "slice" /\ last.ok /\ last.s = -1 /\ last.e = 3
  /\ \A q \in Quantities : ctor[1][q] = Sample(q) /\ objs[1][q] = <<Sample(q)[3]>>

\* Every one of the six quantities of self can be read without error.
AllReadable(self) == \A q \in Quantities : Get(q, self).ok

\* C6: slice never raises on a trajectory whose six quantities can all be
\* read, whatever its bounds.
C6_SliceNeverRaises ==
  [][\A o \in Objects :
       (Did("slice", o) /\ AllReadable(objs[o])) => last'.ok]_vars

\* C7: with the flag true and only position and orientation set, slice(s, e)
\* over a non-empty range leaves each derived quantity equal to the [s, e)
\* rows of what a read of it returned before the slice.
C7_SliceCutsUnslicedDerivation ==
  [][\A o \in Objects :
       (/\ Did("slice", o) /\ objs[o].do_diff
        /\ any(objs[o].p) /\ any(objs[o].r)
        /\ \A q \in Derived : ~any(objs[o][q]) /\ Get(q, objs[o]).ok
        /\ Bound(last'.s, Len(objs[o].p)) < Bound(last'.e, Len(objs[o].p)))
       => \A q \in Derived :
            objs'[o][q] = PySlice(Get(q, objs[o]).val, last'.s, last'.e)]_vars

\* C8: transform(identity, "right") on a trajectory with position and
\* orientation set returns a trajectory whose position and orientation read
\* as the original's, with the original's timestamps and the flag true.
C8_IdentityTransformKeepsPose ==
  [][\A o \in Objects :
       (/\ Did("transform", o) /\ last'.T = Identity /\ last'.side = "right"
        /\ any(objs[o].p) /\ any(objs[o].r))
       => /\ last'.ok
          /\ get_p(objs'[2]).ok /\ get_p(objs'[2]).val = objs[o].p
          /\ get_r(objs'[2]).ok /\ get_r(objs'[2]).val = objs[o].r
          /\ objs'[2].t = objs[o].t
          /\ objs'[2].do_diff]_vars

\* C9: in the trajectory transform returns, the four derived quantities
\* start unset, and a read of velocity gives differentiate(its position,
\* timestamps).
C9_TransformResultDerivesRates ==
  [][\A o \in Objects :
       (Did("transform", o) /\ last'.ok)
       => /\ \A q \in Derived : ~any(objs'[2][q])
          /\ LET d == diff(objs'[2].p, objs'[2].t)
                 g == get_v(objs'[2])
             IN  g.ok = d.ok /\ g.val = d.val]_vars

\* Every set quantity of self has as many rows as its timestamps.
Aligned(self) == \A q \in Quantities : any(self[q]) => Len(self[q]) = Len(self.t)

\* C10: reads, reset, slice and transform keep every set quantity as long as
\* the timestamps.
C10_CallsKeepAlignment ==
  [][(last'.op \in {"read", "reset", "slice", "transform"}
        /\ \A o \in Objects : Aligned(objs[o]))
       => \A o \in 1..Len(objs') : Aligned(objs'[o])]_vars


\* ---------------------------------------------------------------- C11
\* What the angular velocity getter derives from orientation r and
\* timestamps t: row i of the Euler rates converted with row i of r.
BodyRates(r, t) ==
  LET d == diff(r, t) IN
  [ok |-> d.ok,
   val |-> IF d.ok THEN [i \in 1..Len(d.val) |-> to_angular_rates(r[i], d.val[i])]
           ELSE <<>>]

\* C11: with the flag true, orientation set and angular velocity unset, a
\* read of angular velocity returns, row by row, the Euler rates of the
\* orientation converted to body rates, and that converted array is what
\* the angular velocity holds afterwards.
C11_AngularVelocityIsConverted ==
  [][\A o \in Objects :
       (/\ Did("read", o) /\ last'.q = "w" /\ objs[o].do_diff
        /\ any(objs[o].r) /\ ~any(objs[o].w))
       => LET b == BodyRates(objs[o].r, objs[o].t) IN
          /\ last'.ok = b.ok
          /\ b.ok => /\ Len(last'.val) = Len(objs[o].r)
                      /\ \A i \in 1..Len(last'.val) :
                           last'.val[i] = to_angular_rates(objs[o].r[i],
                                            diff(objs[o].r, objs[o].t).val[i])
                      /\ objs'[o].w = last'.val]_vars

\* C11 witness: the read derived an angular velocity that differs from the
\* Euler rates it was converted from.
C11_Witness ==
  /\ last.op = "read" /\ last.q = "w" /\ last.ok /\ last.stored = {"w"}
  /\ objs[last.obj].w = last.val
  /\ diff(objs[last.obj].r, objs[last.obj].t).ok
  /\ last.val # diff(objs[last.obj].r, objs[last.obj].t).val


\* ---------------------------------------------------------------- C12
\* The two chains: root, first derivative, second derivative.
Chains == {<<"p", "v", "a">>, <<"r", "w", "alpha">>}

\* What a read of the first derivative of chain c derives on self.
FirstDerivative(c, self) ==
  IF c[2] = "v" THEN diff(self.p, self.t) ELSE BodyRates(self.r, self.t)

\* C12: with the flag true, the root of a chain set and both its derivatives
\* unset, a read of the second derivative first derives and stores the
\* first derivative from the root, then returns and stores the derivative
\* of that stored array; a read of the first derivative made afterwards
\* returns the array stored by the cascade.
C12_CascadeStoresBothDerivatives ==
  [][\A o \in Objects : \A c \in Chains :
       (/\ Did("read", o) /\ last'.q = c[3] /\ objs[o].do_diff
        /\ any(objs[o][c[1]]) /\ ~any(objs[o][c[2]]) /\ ~any(objs[o][c[3]]))
       => LET d1 == FirstDerivative(c, objs[o]) IN
          /\ ~d1.ok => ~last'.ok
          /\ d1.ok =>
               LET d2 == diff(d1.val, objs[o].t) IN
               /\ objs'[o][c[2]] = d1.val
               /\ last'.ok = d2.ok
               /\ d2.ok => /\ last'.val = d2.val
                           /\ objs'[o][c[3]] = d2.val
                           /\ Get(c[2], objs'[o]).ok
                           /\ Get(c[2], objs'[o]).val = d1.val]_vars

\* C12 witness: a read of acceleration stored a velocity and an acceleration
\* that are both non-zero.
C12_Witness ==
  /\ last.op = "read" /\ last.q = "a" /\ last.ok /\ last.stored = {"v", "a"}
  /\ any(objs[last.obj].v) /\ any(last.val) /\ objs[last.obj].a = last.val


\* ---------------------------------------------------------------- C13
\* x has rows and every one of them is zero.
AllZero(x) == Len(x) > 0 /\ \A i \in 1..Len(x) : x[i] = 0

\* C13: a read of a quantity that holds an all-zero array behaves as the
\* read of that quantity unset on the same object: it raises the
\* quantity's missing-data error when the flag is false or the quantity is
\* position or orientation, and otherwise derives the quantity from its
\* predecessor, with the same result, error and stored arrays.
C13_AllZeroReadsAsUnset ==
  [][\A o \in Objects : \A q \in Quantities :
       (Did("read", o) /\ last'.q = q /\ AllZero(objs[o][q]))
       => LET u == Get(q, [objs[o] EXCEPT ![q] = NoData]) IN
          /\ last'.ok = u.ok /\ last'.val = u.val /\ last'.err = u.err
          /\ \A f \in Quantities \ {q} : objs'[o][f] = u.self[f]
          /\ (~objs[o].do_diff \/ q \in {"p", "r"})
               => ~last'.ok /\ last'.err = ErrName(q) /\ objs'[o] = objs[o]
          /\ (objs[o].do_diff /\ q \in Derived /\ last'.ok)
               => q \in last'.stored /\ objs'[o][q] = last'.val]_vars

\* C13 witness: a read of a position that holds three zero rows raised the
\* missing-position error.
C13_Witness ==
  /\ last.op = "read" /\ last.q = "p" /\ ~last.ok /\ last.err = "position"
  /\ objs[last.obj].p = <<0, 0, 0>>


\* ---------------------------------------------------------------- C14
\* The attributes of an object other than the stored quantity q.
OtherFields(q) == DOMAIN objs[1] \ {q}

\* C14: an assignment of x to quantity q replaces whatever q held, for an
\* x of any length; a read of q made afterwards returns x when x has a
\* non-zero row; and the assignment changes no other stored quantity,
\* neither the timestamps, the flag nor the construction-time arrays.
C14_SetOverwritesOnlyItsQuantity ==
  [][\A o \in Objects : \A q \in Quantities :
       (Did("set", o) /\ last'.q = q)
       => /\ last'.ok
          /\ objs'[o][q] = last'.x
          /\ any(last'.x) => /\ Get(q, objs'[o]).ok
                             /\ Get(q, objs'[o]).val = last'.x
                             /\ Get(q, objs'[o]).self = objs'[o]
          /\ \A f \in OtherFields(q) : objs'[o][f] = objs[o][f]]_vars

\* C14 witness: the second call assigned four rows to an angular velocity
\* that held three, and changed it.
C14_Witness ==
  /\ steps = 2 /\ last.op = "set" /\ last.q = "w" /\ last.changed
  /\ last.x = <<0, 0, 0, 8>> /\ objs[last.obj].w = last.x
  /\ Len(ctor[last.obj].w) = 3 /\ any(ctor[last.obj].w)


\* ---------------------------------------------------------------- C15
\* The attribute holding the construction-time array of quantity q.
InitField(q) ==
  CASE q = "p" -> "p_init" [] q = "v" -> "v_init" [] q = "a" -> "a_init"
    [] q = "r" -> "r_init" [] q = "w" -> "w_init" [] q = "alpha" -> "alpha_init"

\* C15: no call changes the construction-time arrays, the timestamps or the
\* flag of an object: each call leaves them as they were, and in every
\* state the construction-time arrays and the timestamps are the ones the
\* constructor was given.  (A successful transform puts a newly
\* constructed object in slot 2.)
C15_SnapshotTimestampsFlagNeverChange ==
  [][/\ \A o \in Objects :
          (o = 1 \/ ~(last'.op = "transform" /\ last'.ok))
          => /\ \A q \in Quantities :
                  objs'[o][InitField(q)] = objs[o][InitField(q)]
             /\ objs'[o].t = objs[o].t
             /\ objs'[o].do_diff = objs[o].do_diff
     /\ \A o \in 1..Len(objs') :
          /\ \A q \in Quantities : objs'[o][InitField(q)] = ctor'[o][q]
          /\ objs'[o].t = Timestamps]_vars

\* C15 witness: two calls, the second a slice, changed the position of a
\* trajectory whose construction-time position is still the array passed.
C15_Witness ==
  /\ steps = 2 /\ last.op = "slice" /\ last.obj = 1 /\ last.changed
  /\ objs[1].p # objs[1].p_init
  /\ objs[1].p_init = Sample("p") /\ ctor[1].p = Sample("p")
  /\ objs[1].t = Timestamps


\* ---------------------------------------------------------------- C16
\* C16: transform with a side other than "right", "left" or not, takes the
\* left-multiplication branch and raises nothing on account of the side:
\* it succeeds or fails as transform(T, "left") does on the same object,
\* and on success returns the same trajectory, whose position is the
\* left-transformed position.
C16_OtherSideIsLeft ==
  [][\A o \in Objects :
       (Did("transform", o) /\ last'.side # "right")
       => LET l == transform(objs[o], last'.T, "left") IN
          /\ last'.ok = l.ok /\ last'.err = l.err
          /\ l.ok => /\ objs'[2] = l.val
                      /\ objs'[2].p = transform_data_left(objs[o].p, objs[o].r, last'.T)[1]
          /\ (any(objs[o].p) /\ any(objs[o].r) /\ Len(objs[o].p) = Len(objs[o].r))
               => last'.ok]_vars

\* C16 witness: transform with side "up" and a transform that is not the
\* identity returned a trajectory.
C16_Witness ==
  /\ last.op = "transform" /\ last.side = "up" /\ last.ok /\ last.T # Identity
  /\ Len(objs) = 2 /\ any(objs[2].p)


\* ---------------------------------------------------------------- C17
\* The missing-data errors of the six getters.
MissingData == {ErrName(q) : q \in Quantities}

\* The root of the chain of quantity q.
Root(q) == IF q \in {"p", "v", "a"} THEN "p" ELSE "r"

\* C17: a read that raises a missing-data error leaves the object as it
\* was, whatever the quantity and the state, and the error reaches the
\* caller: with the flag false it names the quantity read, and in a
\* cascade with the flag true it names the unset root of the chain.
C17_FailedReadChangesNothing ==
  [][\A o \in Objects : \A q \in Quantities :
       (Did("read", o) /\ last'.q = q /\ ~last'.ok /\ last'.err \in MissingData)
       => /\ objs'[o] = objs[o]
          /\ last'.stored = {} /\ ~last'.changed
          /\ last'.err = IF objs[o].do_diff THEN ErrName(Root(q)) ELSE ErrName(q)
          /\ ~any(objs[o][q])
          /\ objs[o].do_diff => ~any(objs[o][Root(q)])]_vars

\* C17 witness: with the flag true and the position unset, a read of
\* acceleration raised the missing-position error.
C17_Witness ==
  /\ last.op = "read" /\ last.q = "a" /\ ~last.ok /\ last.err = "position"
  /\ objs[last.obj].do_diff /\ ~last.changed
  /\ \A q \in {"p", "v", "a"} : ~any(objs[last.obj][q])


\* ---------------------------------------------------------------- C18
\* The quantities a read of q may derive: q and what lies between q and
\* the root of its chain.
Span(q) ==
  CASE q = "v" -> {"v"} [] q = "a" -> {"v", "a"}
    [] q = "w" -> {"w"} [] q = "alpha" -> {"w", "alpha"}
    [] OTHER -> {}

\* C18: a read changes its own chain only.  A read of a quantity that is
\* set changes nothing; a read that derives q stores q and changes, besides
\* q, only quantities that were unset and lie between q and the root of its
\* chain; a read of p, v or a leaves r, w and alpha as they were and a read
\* of r, w or alpha leaves p, v and a; nothing else of the object changes.
C18_ReadChangesOwnChainOnly ==
  [][\A o \in Objects : \A q \in Quantities :
       (Did("read", o) /\ last'.q = q)
       => /\ any(objs[o][q]) => objs'[o] = objs[o] /\ last'.val = objs[o][q]
          /\ \A f \in Quantities :
               objs'[o][f] # objs[o][f] => f \in Span(q) /\ ~any(objs[o][f])
          /\ (last'.ok /\ ~any(objs[o][q])) => objs'[o][q] = last'.val
          /\ \A f \in Quantities : Root(f) # Root(q) => objs'[o][f] = objs[o][f]
          /\ \A f \in DOMAIN objs[o] \ Quantities : objs'[o][f] = objs[o][f]
          /\ \A k \in Objects \ {o} : objs'[k] = objs[k]]_vars

\* C18 witness: a read of angular acceleration stored the angular velocity
\* and the angular acceleration of a trajectory constructed with a
\* position and an orientation.
C18_Witness ==
  /\ last.op = "read" /\ last.q = "alpha" /\ last.ok /\ last.changed
  /\ last.stored = {"w", "alpha"}
  /\ any(objs[last.obj].p) /\ ~any(objs[last.obj].v) /\ ~any(objs[last.obj].a)


\* ---------------------------------------------------------------- C19
\* The object after the first j statements of slice(s, e) have each read
\* their quantity and assigned its rows [s, e).
RECURSIVE AfterTurn(_, _, _, _)
AfterTurn(self, s, e, j) ==
  IF j = 0 THEN self
  ELSE LET g == Get(Order[j], AfterTurn(self, s, e, j - 1))
       IN  Set(Order[j], g.self, PySlice(g.val, s, e))

\* C19: slice takes the quantities in the order p, v, a, r, w, alpha.  When
\* the read of one of them raises a missing-data error, every quantity
\* before it in that order holds the rows it was truncated to at its turn,
\* and the failing quantity and those after it hold what they held before
\* the call.
C19_FailedSliceKeepsEarlierTruncations ==
  [][\A o \in Objects :
       (Did("slice", o) /\ ~last'.ok /\ last'.err \in MissingData)
       => /\ last'.cut \in 0..5
          /\ \A j \in 1..last'.cut :
               objs'[o][Order[j]] =
                 AfterTurn(objs[o], last'.s, last'.e, j)[Order[j]]
          /\ \A j \in (last'.cut + 1)..6 :
               objs'[o][Order[j]] = objs[o][Order[j]]]_vars


\* ---------------------------------------------------------------- C20
\* C20: transform leaves the object it is called on as it was: with
\* position and orientation set, its six quantities, timestamps and flag
\* are the same after the call as before, whatever the transform and the
\* side; and the trajectory it returns is another object: no assignment,
\* read, slice or reset made on the result changes the original.
C20_TransformLeavesOriginal ==
  [][/\ \A o \in Objects :
          (/\ Did("transform", o) /\ any(objs[o].p) /\ any(objs[o].r)
           /\ (o = 1 \/ ~last'.ok))
          => /\ objs'[o] = objs[o]
             /\ ~last'.changed
             /\ last'.ok => Len(objs') = 2 /\ objs'[2].do_diff
     /\ (Len(objs) = 2 /\ last'.obj = 2) => objs'[1] = objs[1]]_vars

\* C20 witness: transform returned a trajectory, a slice then changed that
\* trajectory, and the original is as constructed, with position and
\* orientation set.
C20_Witness ==
  /\ steps = 2 /\ Len(objs) = 2
  /\ last.op = "slice" /\ last.obj = 2 /\ last.changed
  /\ any(objs[1].p) /\ any(objs[1].r)
  /\ \A q \in Quantities : objs[1][q] = ctor[1][q]

====
